---- MODULE Spec2Model ----
(***************************************************************************)
(* BaseDispatcher of src/flux.js: the registry of payloadables, the        *)
(* dispatch round and waitFor.  The engine is synchronous and re-entrant:  *)
(* callbacks run on the JavaScript call stack and call back into the       *)
(* engine, so the call stack is part of the state and every engine step    *)
(* (a loop iteration, a call, a return, a throw) is one action.            *)
(*                                                                         *)
(* A callback is the most general client: while it is on top of the stack  *)
(* it may call register, unregister, dispatch and waitFor, each inside or  *)
(* outside a try/catch of its own, throw an error of its own, or return.   *)
(***************************************************************************)
EXTENDS Naturals, Sequences, FiniteSets

\* ------------------------------------------------------------------ bounds
\* number of register calls over the engine's lifetime
MaxID == 3
\* number of engine calls one callback invocation makes
MaxOps == 1
\* number of arguments of one waitFor call
MaxWait == 1
\* number of top-level dispatch calls
MaxRounds == 2

\* ------------------------------------------------------------- values
Prefix == "ID_"

\* BaseDispatcher.Prefix + n : the token string "ID_n"
Tok(n) == <<Prefix, n>>

\* tokens a caller can name: issued ones, and "ID_0", which is never issued
AllTokens == {Tok(n) : n \in 0..MaxID}

\* a Payloadable as waitFor sees it: an object with a dispatchToken
Obj(t) == [dispatchToken |-> t]

Objects == {Obj(t) : t \in AllTokens}

Payloads == {"p1", "p2"}

\* the value of a deleted / never assigned property
Undefined == "undefined"

NoTok == <<"", 0>>

NoErr == [kind |-> "none", tok |-> NoTok]

Err(k, t) == [kind |-> k, tok |-> t]

VARIABLES
    payloadables,    \* _payloadables: its keys, in insertion order
    isDispatching,   \* _isDispatching
    isHandled,       \* _isHandled: the keys whose value is true
    isPending,       \* _isPending: the keys whose value is true
    lastID,          \* _lastID
    pendingPayload,  \* _pendingPayload
    stack,           \* the call stack: dispatch, callback and waitFor frames
    rounds,          \* top-level dispatch calls made so far
    \* ---- observation only: nothing below is read by the engine
    event,           \* the step just taken
    result,          \* what the last finished top-level dispatch gave its caller
    invoked,         \* tokens whose callback was entered in this round, in order
    completed,       \* tokens whose callback returned in this round, in order
    waited,          \* <<a, b>>: a's waitFor of unvisited b returned normally
    issued,          \* every token register has returned, in order
    unregistered,    \* tokens a successful unregister removed
    lateReg,         \* tokens registered while the current round was active
    startKeys,       \* registry keys when the current round started
    raised           \* the errors raised in this round: "none", "reentrant"
                     \* (only ReentrantDispatch, each caught by the callback
                     \* that called dispatch) or "other"

vars == <<payloadables, isDispatching, isHandled, isPending, lastID,
          pendingPayload, stack, rounds, event, result, invoked, completed,
          waited, issued, unregistered, lateReg, startKeys, raised>>

\* ------------------------------------------------------------- helpers
Range(s) == {s[i] : i \in 1..Len(s)}

\* "id in _payloadables" / truthiness of _payloadables[id]
Has(id) == id \in Range(payloadables)

\* delete _payloadables[id]: the other keys keep their order
\* a delete that takes the keys after id with it
DeleteTail(s, id) ==
    LET at == {i \in 1..Len(s) : s[i] = id}
    IN IF at = {} THEN s ELSE SubSeq(s, 1, (CHOOSE i \in at : TRUE) - 1)

Delete(s, id) == SelectSeq(s, LAMBDA k : k # id)

\* a registry that enumerates a new key first
PutFront(s, id) == IF id \in Range(s) THEN s ELSE <<id>> \o s

\* _payloadables[id] = payloadable: a new key goes last, a key already
\* present keeps its place
Put(s, id) == IF id \in Range(s) THEN s ELSE Append(s, id)

Top == stack[Len(stack)]

Ev(op, t, e) == [op |-> op, tok |-> t, err |-> e.kind]

DispatchFrame(keys) ==
    [kind |-> "dispatch", id |-> NoTok, ids |-> <<>>, ii |-> 1,
     guarded |-> FALSE, keys |-> keys, n |-> 0, fresh |-> {},
     payload |-> Undefined]

CbFrame(id, payload) ==
    [kind |-> "cb", id |-> id, ids |-> <<>>, ii |-> 1,
     guarded |-> FALSE, keys |-> <<>>, n |-> 0, fresh |-> {},
     payload |-> payload]

WaitFrame(ids, guarded, fresh) ==
    [kind |-> "waitFor", id |-> NoTok, ids |-> ids, ii |-> 1,
     guarded |-> guarded, keys |-> <<>>, n |-> 0, fresh |-> fresh,
     payload |-> Undefined]

\* the code that may call the engine: the outside (empty stack) or the
\* callback on top of the stack
CanAct == IF stack = <<>> THEN TRUE ELSE Top.kind = "cb" /\ Top.n < MaxOps

\* the calling callback has made one more engine call
Bump(s) == IF s = <<>> THEN s ELSE [s EXCEPT ![Len(s)].n = @ + 1]

\* waitFor swallowing what its targets throw: every waitFor frame catches
CatcherAny(s) ==
    LET c == {i \in 1..Len(s) : s[i].kind = "waitFor"}
    IN IF c = {} THEN 0 ELSE CHOOSE i \in c : \A j \in c : j <= i

\* the innermost try/catch a callback put around a waitFor call still on
\* the stack (0: none).  The engine itself catches nothing.
Catcher(s) ==
    LET c == {i \in 1..Len(s) : s[i].kind = "waitFor" /\ s[i].guarded}
    IN IF c = {} THEN 0 ELSE CHOOSE i \in c : \A j \in c : j <= i

\* the round's record of raised errors after one more, of kind k
Raised(k, caughtHere) ==
    IF k = "ReentrantDispatch" /\ caughtHere /\ raised # "other"
    THEN "reentrant" ELSE "other"

\* _stopDispatching
_stopDispatching ==
    /\ pendingPayload' = Undefined
    /\ isDispatching' = FALSE

\* an uncaught error leaves dispatch without running _stopDispatching
\* (dispatch without its try/finally)
ThrowNoFinally(s, e, here) ==
    IF s = <<>>
    THEN /\ stack' = <<>>
         /\ UNCHANGED <<pendingPayload, isDispatching, result, raised>>
    ELSE IF here
    THEN /\ stack' = Bump(s)
         /\ raised' = Raised(e.kind, TRUE)
         /\ UNCHANGED <<pendingPayload, isDispatching, result>>
    ELSE IF Catcher(s) > 0
    THEN /\ stack' = Bump(SubSeq(s, 1, Catcher(s) - 1))
         /\ raised' = Raised(e.kind, FALSE)
         /\ UNCHANGED <<pendingPayload, isDispatching, result>>
    ELSE /\ stack' = <<>>
         /\ raised' = Raised(e.kind, FALSE)
         /\ result' = e
         /\ UNCHANGED <<pendingPayload, isDispatching>>

\* An error e is thrown by an engine call or a callback; s is the stack at
\* the throw; here: the throwing call itself sits in a try/catch of the
\* calling callback.  Thrown to the outside (s empty): the caller sees it
\* (event) and the engine is as before.  Caught: the frames above the
\* catching callback are dropped and that callback goes on.  Not caught:
\* every frame is dropped, the finally of dispatch runs _stopDispatching,
\* and the caller of dispatch gets e.
Throw(s, e, here) ==
    IF s = <<>>
    THEN /\ stack' = <<>>
         /\ UNCHANGED <<pendingPayload, isDispatching, result, raised>>
    ELSE IF here
    THEN /\ stack' = Bump(s)
         /\ raised' = Raised(e.kind, TRUE)
         /\ UNCHANGED <<pendingPayload, isDispatching, result>>
    ELSE IF Catcher(s) > 0
    THEN /\ stack' = Bump(SubSeq(s, 1, Catcher(s) - 1))
         /\ raised' = Raised(e.kind, FALSE)
         /\ UNCHANGED <<pendingPayload, isDispatching, result>>
    ELSE /\ stack' = <<>>
         /\ raised' = Raised(e.kind, FALSE)
         /\ result' = e
         /\ _stopDispatching

\* ------------------------------------------------------------- state
Init ==
    /\ payloadables = <<>>
    /\ isDispatching = FALSE
    /\ isHandled = {}
    /\ isPending = {}
    /\ lastID = 1
    /\ pendingPayload = Undefined
    /\ stack = <<>>
    /\ rounds = 0
    /\ event = Ev("init", NoTok, NoErr)
    /\ result = NoErr
    /\ invoked = <<>>
    /\ completed = <<>>
    /\ waited = {}
    /\ issued = <<>>
    /\ unregistered = {}
    /\ lateReg = {}
    /\ startKeys = <<>>
    /\ raised = "none"

\* a token numbered by the size of the registry instead of by _lastID
NewTokenByCount == Tok(Len(payloadables) + 1)

\* the token register mints
NewToken == Tok(lastID)

\* register(payloadable)
Register ==
    /\ CanAct
    /\ lastID <= MaxID
    /\ payloadables' = Put(payloadables, NewToken)
    /\ lastID' = lastID + 1
    /\ stack' = Bump(stack)
    /\ issued' = Append(issued, NewToken)
    /\ lateReg' = IF isDispatching THEN lateReg \cup {NewToken} ELSE lateReg
    /\ event' = Ev("register", NewToken, NoErr)
    /\ UNCHANGED result
    /\ UNCHANGED <<isDispatching, isHandled, isPending, pendingPayload, rounds,
                   invoked, completed, waited, unregistered, startKeys, raised>>

\* unregister without its registered check: deleting a missing key is
\* silent
UnregisterNoCheck(id, guarded) ==
    /\ CanAct
    /\ payloadables' = Delete(payloadables, id)
    /\ unregistered' = unregistered \cup {id}
    /\ stack' = Bump(stack)
    /\ event' = Ev("unregister", id, NoErr)
    /\ UNCHANGED <<pendingPayload, isDispatching, raised, result, isHandled,
                   isPending, lastID, rounds, invoked, completed, waited,
                   issued, lateReg, startKeys>>

\* unregister(id)
Unregister(id, guarded) ==
    /\ CanAct
    /\ IF ~Has(id)
       THEN /\ Throw(stack, Err("UnknownSubscriber", id), guarded)
            /\ event' = Ev("unregister", id, Err("UnknownSubscriber", id))
            /\ UNCHANGED <<payloadables, unregistered>>
       ELSE /\ payloadables' = Delete(payloadables, id)
            /\ unregistered' = unregistered \cup {id}
            /\ stack' = Bump(stack)
            /\ event' = Ev("unregister", id, NoErr)
            /\ UNCHANGED result
            /\ UNCHANGED <<pendingPayload, isDispatching, raised>>
    /\ UNCHANGED <<isHandled, isPending, lastID, rounds, invoked, completed,
                   waited, issued, lateReg, startKeys>>

\* dispatch without its reentrancy check
ReentrantOff == FALSE

\* dispatch, line 104: a round is already active
Reentrant == isDispatching

\* _startDispatching that leaves the flags of the last round in place
_startDispatchingNoReset(payload) ==
    /\ UNCHANGED <<isPending, isHandled>>
    /\ pendingPayload' = payload
    /\ isDispatching' = TRUE

\* _startDispatching that does not store its argument
_startDispatchingNoStore(payload) ==
    /\ isPending' = isPending \ Range(payloadables)
    /\ isHandled' = isHandled \ Range(payloadables)
    /\ pendingPayload' = pendingPayload
    /\ isDispatching' = TRUE

\* _startDispatching(payload)
_startDispatching(payload) ==
    /\ isPending' = isPending \ Range(payloadables)
    /\ isHandled' = isHandled \ Range(payloadables)
    /\ pendingPayload' = payload
    /\ isDispatching' = TRUE

\* _invokePayloadable(id), lines 132-134: mark id pending and enter its
\* callback with the stored payload; s is the stack of the caller
_invokePayloadable(id, s) ==
    /\ isPending' = isPending \cup {id}
    /\ stack' = Append(s, CbFrame(id, pendingPayload))
    /\ invoked' = Append(invoked, id)

\* dispatch(payload), lines 104-106: the reentrancy check, _startDispatching
\* and the key snapshot of the for-in loop; the frame of the call holds its
\* argument
Dispatch(payload, guarded) ==
    /\ CanAct
    /\ IF Reentrant
       THEN /\ Throw(stack, Err("ReentrantDispatch", NoTok), guarded)
            /\ event' = Ev("dispatch", NoTok, Err("ReentrantDispatch", NoTok))
            /\ UNCHANGED <<isPending, isHandled, rounds, invoked, completed,
                           waited, lateReg, startKeys>>
       ELSE /\ rounds < MaxRounds
            /\ rounds' = rounds + 1
            /\ _startDispatching(payload)
            /\ stack' = Append(stack, [DispatchFrame(payloadables)
                                          EXCEPT !.payload = payload])
            /\ event' = Ev("dispatch", NoTok, NoErr)
            /\ invoked' = <<>>
            /\ completed' = <<>>
            /\ waited' = {}
            /\ lateReg' = {}
            /\ startKeys' = payloadables
            /\ raised' = "none"
            /\ UNCHANGED result
    /\ UNCHANGED <<payloadables, lastID, issued, unregistered>>

\* the main loop without its pending check
LoopSkipsOff(id) == FALSE

\* dispatch, line 108: the main loop passes over a key already pending
LoopSkips(id) == id \in isPending

\* dispatch, lines 107-112: one iteration of the for-in loop.  The loop
\* enumerates the keys present when it started and passes over a key that
\* was deleted before its turn.
DispatchLoop ==
    /\ stack # <<>>
    /\ Top.kind = "dispatch"
    /\ Top.ii <= Len(Top.keys)
    /\ LET id == Top.keys[Top.ii]
           s1 == [stack EXCEPT ![Len(stack)].ii = @ + 1]
       IN  IF ~Has(id)
           THEN /\ stack' = s1
                /\ event' = Ev("loopDeleted", id, NoErr)
                /\ UNCHANGED <<isPending, invoked>>
           ELSE IF LoopSkips(id)
           THEN /\ stack' = s1
                /\ event' = Ev("loopContinue", id, NoErr)
                /\ UNCHANGED <<isPending, invoked>>
           ELSE /\ _invokePayloadable(id, s1)
                /\ event' = Ev("loopInvoke", id, NoErr)
    /\ UNCHANGED <<payloadables, isDispatching, isHandled, lastID,
                   pendingPayload, rounds, result, completed, waited, issued,
                   unregistered, lateReg, startKeys, raised>>

\* dispatch, lines 113-116: the loop is over, finally runs and dispatch
\* returns
DispatchReturn ==
    /\ stack # <<>>
    /\ Top.kind = "dispatch"
    /\ Top.ii > Len(Top.keys)
    /\ _stopDispatching
    /\ stack' = Bump(SubSeq(stack, 1, Len(stack) - 1))
    /\ result' = IF Len(stack) = 1 THEN NoErr ELSE result
    /\ event' = Ev("dispatchReturn", NoTok, NoErr)
    /\ UNCHANGED <<payloadables, isHandled, isPending, lastID, rounds, invoked,
                   completed, waited, issued, unregistered, lateReg, startKeys,
                   raised>>

\* waitFor, line 87: ids.map(id => id.dispatchToken)
DispatchTokens(objs) == [i \in 1..Len(objs) |-> objs[i].dispatchToken]

\* waitFor without its must-be-dispatching check
WaitForNoCheck(objs, guarded) ==
    /\ CanAct
    /\ LET ids == DispatchTokens(objs)
       IN  /\ stack' = Append(stack, WaitFrame(ids, guarded,
                        {ids[i] : i \in {j \in 1..Len(ids) :
                                     Has(ids[j]) /\ ids[j] \notin isPending}}))
           /\ event' = Ev("waitFor", NoTok, NoErr)
    /\ UNCHANGED <<pendingPayload, isDispatching, result, raised, payloadables,
                   isHandled, isPending, lastID, rounds, invoked, completed,
                   waited, issued, unregistered, lateReg, startKeys>>

\* waitFor(...ids), lines 87-88: the argument mapping and the
\* must-be-dispatching check
WaitFor(objs, guarded) ==
    /\ CanAct
    /\ LET ids == DispatchTokens(objs)
       IN  IF ~isDispatching
           THEN /\ Throw(stack, Err("NotDispatching", NoTok), guarded)
                /\ event' = Ev("waitFor", NoTok, Err("NotDispatching", NoTok))
           ELSE /\ stack' = Append(stack, WaitFrame(ids, guarded,
                        {ids[i] : i \in {j \in 1..Len(ids) :
                                     Has(ids[j]) /\ ids[j] \notin isPending}}))
                /\ event' = Ev("waitFor", NoTok, NoErr)
                /\ UNCHANGED <<pendingPayload, isDispatching, result, raised>>
    /\ UNCHANGED <<payloadables, isHandled, isPending, lastID, rounds, invoked,
                   completed, waited, issued, unregistered, lateReg, startKeys>>

\* waitFor, line 91: the target has been entered in this bookkeeping
WaitPending(id) == id \in isPending

\* waitFor without its cycle check: a pending target is passed over
WaitCircularOff(id) == FALSE

\* waitFor, line 92: the target is pending and has not finished
WaitCircular(id) == id \notin isHandled

\* waitFor that passes over a registered, unvisited target instead of
\* invoking it
WaitForStepNoInvoke ==
    /\ stack # <<>>
    /\ Top.kind = "waitFor"
    /\ Top.ii <= Len(Top.ids)
    /\ LET id == Top.ids[Top.ii]
           s1 == [stack EXCEPT ![Len(stack)].ii = @ + 1]
       IN  IF WaitPending(id)
           THEN IF WaitCircular(id)
                THEN /\ Throw(stack, Err("CircularDependency", id), FALSE)
                     /\ event' = Ev("waitForStep", id,
                                    Err("CircularDependency", id))
                ELSE /\ stack' = s1
                     /\ event' = Ev("waitForStep", id, NoErr)
                     /\ UNCHANGED <<pendingPayload, isDispatching, result,
                                    raised>>
           ELSE IF ~Has(id)
                THEN /\ Throw(stack, Err("UnknownSubscriber", id), FALSE)
                     /\ event' = Ev("waitForStep", id,
                                    Err("UnknownSubscriber", id))
                ELSE /\ stack' = s1
                     /\ event' = Ev("waitForStep", id, NoErr)
                     /\ UNCHANGED <<pendingPayload, isDispatching, result,
                                    raised>>
    /\ UNCHANGED <<payloadables, isHandled, isPending, lastID, rounds, invoked,
                   completed, waited, issued, unregistered, lateReg, startKeys>>

\* waitFor, lines 89-97: one iteration of the loop over ids
WaitForStep ==
    /\ stack # <<>>
    /\ Top.kind = "waitFor"
    /\ Top.ii <= Len(Top.ids)
    /\ LET id == Top.ids[Top.ii]
           s1 == [stack EXCEPT ![Len(stack)].ii = @ + 1]
       IN  IF WaitPending(id)
           THEN IF WaitCircular(id)
                THEN /\ Throw(stack, Err("CircularDependency", id), FALSE)
                     /\ event' = Ev("waitForStep", id,
                                    Err("CircularDependency", id))
                     /\ UNCHANGED <<isPending, invoked>>
                ELSE /\ stack' = s1
                     /\ event' = Ev("waitForStep", id, NoErr)
                     /\ UNCHANGED <<isPending, invoked, pendingPayload,
                                    isDispatching, result, raised>>
           ELSE IF ~Has(id)
                THEN /\ Throw(stack, Err("UnknownSubscriber", id), FALSE)
                     /\ event' = Ev("waitForStep", id,
                                    Err("UnknownSubscriber", id))
                     /\ UNCHANGED <<isPending, invoked>>
                ELSE /\ _invokePayloadable(id, s1)
                     /\ event' = Ev("waitForInvoke", id, NoErr)
                     /\ UNCHANGED <<pendingPayload, isDispatching, result,
                                    raised>>
    /\ UNCHANGED <<payloadables, isHandled, lastID, rounds, completed, waited,
                   issued, unregistered, lateReg, startKeys>>

\* waitFor, line 98: the loop is over and waitFor returns to its callback
WaitForReturn ==
    /\ stack # <<>>
    /\ Top.kind = "waitFor"
    /\ Top.ii > Len(Top.ids)
    /\ stack' = Bump(SubSeq(stack, 1, Len(stack) - 1))
    /\ waited' = waited \cup {<<stack[Len(stack) - 1].id, b>> : b \in Top.fresh}
    /\ event' = Ev("waitForReturn", stack[Len(stack) - 1].id, NoErr)
    /\ UNCHANGED <<payloadables, isDispatching, isHandled, isPending, lastID,
                   pendingPayload, rounds, result, invoked, completed, issued,
                   unregistered, lateReg, startKeys, raised>>

\* a callback return that does not set the handled flag
CallbackReturnNoMark ==
    /\ stack # <<>>
    /\ Top.kind = "cb"
    /\ stack' = SubSeq(stack, 1, Len(stack) - 1)
    /\ completed' = Append(completed, Top.id)
    /\ event' = Ev("callbackReturn", Top.id, NoErr)
    /\ UNCHANGED <<payloadables, isDispatching, isPending, isHandled, lastID,
                   pendingPayload, rounds, result, invoked, waited, issued,
                   unregistered, lateReg, startKeys, raised>>

\* a callback return that takes the pending flag back when it sets the
\* handled flag
CallbackReturnClearsPending ==
    /\ stack # <<>>
    /\ Top.kind = "cb"
    /\ isHandled' = isHandled \cup {Top.id}
    /\ isPending' = isPending \ {Top.id}
    /\ stack' = SubSeq(stack, 1, Len(stack) - 1)
    /\ completed' = Append(completed, Top.id)
    /\ event' = Ev("callbackReturn", Top.id, NoErr)
    /\ UNCHANGED <<payloadables, isDispatching, lastID,
                   pendingPayload, rounds, result, invoked, waited, issued,
                   unregistered, lateReg, startKeys, raised>>

\* _invokePayloadable, lines 134-135: the callback returns and its token
\* is marked handled
CallbackReturn ==
    /\ stack # <<>>
    /\ Top.kind = "cb"
    /\ isHandled' = isHandled \cup {Top.id}
    /\ stack' = SubSeq(stack, 1, Len(stack) - 1)
    /\ completed' = Append(completed, Top.id)
    /\ event' = Ev("callbackReturn", Top.id, NoErr)
    /\ UNCHANGED <<payloadables, isDispatching, isPending, lastID,
                   pendingPayload, rounds, result, invoked, waited, issued,
                   unregistered, lateReg, startKeys, raised>>

\* _invokePayloadable, line 134: the callback throws an error of its own,
\* which leaves _invokePayloadable before line 135
CallbackThrow ==
    /\ stack # <<>>
    /\ Top.kind = "cb"
    /\ Throw(stack, Err("SubscriberError", Top.id), FALSE)
    /\ event' = Ev("callbackThrow", Top.id, Err("SubscriberError", Top.id))
    /\ UNCHANGED <<payloadables, isHandled, isPending, lastID, rounds, invoked,
                   completed, waited, issued, unregistered, lateReg, startKeys>>

\* the argument lists of a waitFor call
WaitArgs == UNION {[1..k -> Objects] : k \in 1..MaxWait}

Next ==
    \/ Register
    \/ \E id \in AllTokens, g \in BOOLEAN : Unregister(id, g)
    \/ \E p \in Payloads, g \in BOOLEAN : Dispatch(p, g)
    \/ DispatchLoop
    \/ DispatchReturn
    \/ \E objs \in WaitArgs, g \in BOOLEAN : WaitFor(objs, g)
    \/ WaitForStep
    \/ WaitForReturn
    \/ CallbackReturn
    \/ CallbackThrow

Spec == Init /\ [][Next]_vars

\* ------------------------------------------------------------------
\* The engine with callbacks that call none of waitFor, register and
\* unregister: they return, throw or call dispatch; the registry changes
\* between rounds only.
RegisterOutside == stack = <<>> /\ Register

UnregisterOutside(id) == stack = <<>> /\ Unregister(id, FALSE)

NextPlain ==
    \/ RegisterOutside
    \/ \E id \in AllTokens : UnregisterOutside(id)
    \/ \E p \in Payloads, g \in BOOLEAN : Dispatch(p, g)
    \/ DispatchLoop
    \/ DispatchReturn
    \/ CallbackReturn
    \/ CallbackThrow

SpecPlain == Init /\ [][NextPlain]_vars

\* ------------------------------------------------------------- claims
\* observation helpers
OnStack(t) == \E i \in 1..Len(stack) : stack[i].kind = "cb" /\ stack[i].id = t

NoDup(s) == \A i, j \in 1..Len(s) : s[i] = s[j] => i = j

Pos(s, x) == CHOOSE i \in 1..Len(s) : s[i] = x

WaitOps == {"waitForStep", "waitForInvoke"}

\* C1: a dispatch called by a callback during a round fails with
\* ReentrantDispatch, invokes nothing and leaves the registry and the flags
\* as they were, and the payload and isDispatching too unless nobody
\* catches the error and it ends the round; when the callback catches it,
\* the round keeps its place (the callback goes on) and, no other error
\* being raised, the round returns normally having invoked every
\* subscriber of its start that was not unregistered.
C1_ReentrantDispatchRejected ==
    /\ [][(event'.op = "dispatch" /\ isDispatching) =>
            /\ event'.err = "ReentrantDispatch"
            /\ UNCHANGED <<payloadables, isHandled, isPending, lastID,
                           invoked, completed>>
            /\ \/ /\ stack' = Bump(stack)
                  /\ UNCHANGED <<pendingPayload, isDispatching>>
               \/ /\ \E i \in 1..Len(stack) :
                        /\ stack[i].kind = "waitFor" /\ stack[i].guarded
                        /\ stack' = Bump(SubSeq(stack, 1, i - 1))
                  /\ UNCHANGED <<pendingPayload, isDispatching>>
               \/ /\ stack' = <<>>
                  /\ result'.kind = "ReentrantDispatch"]_vars
    /\ []((raised = "reentrant" /\ ~isDispatching) =>
            /\ result = NoErr
            /\ \A t \in Range(startKeys) :
                  t \in Range(invoked) \/ t \in unregistered)

C1_Witness ==
    /\ event.op = "dispatchReturn"
    /\ raised = "reentrant"
    /\ result = NoErr
    /\ Len(invoked) >= 2
    /\ Len(completed) = Len(invoked)

\* C2: whenever no engine call is running the engine is not dispatching,
\* whether the last round returned or an error left it; and a dispatch
\* called from outside a round is accepted and starts a round.
C2_NotDispatchingAfterRound ==
    /\ [](stack = <<>> => ~isDispatching)
    /\ [][(event'.op = "dispatch" /\ stack = <<>>) =>
            /\ event'.err = "none"
            /\ isDispatching'
            /\ stack' # <<>>
            /\ invoked' = <<>>]_vars

C2_Witness ==
    /\ event.op = "dispatch"
    /\ event.err = "none"
    /\ isDispatching
    /\ rounds = 2
    /\ result.kind \in {"UnknownSubscriber", "CircularDependency",
                        "ReentrantDispatch", "SubscriberError"}

\* C3: when a's waitFor of a registered, unvisited b has returned normally,
\* b's callback has completed, and it completed before a's; for a chain
\* a waits for b, b waits for c the three complete in the order c, b, a,
\* once each.
C3_WaitForOrders ==
    /\ \A w \in waited :
          /\ w[2] \in Range(completed)
          /\ w[2] \in isHandled
          /\ w[1] \in Range(completed) =>
                Pos(completed, w[2]) < Pos(completed, w[1])
    /\ \A w1, w2 \in waited :
          (w1[2] = w2[1] /\ w1[1] \in Range(completed)) =>
             /\ SelectSeq(completed, LAMBDA t : t \in {w1[1], w1[2], w2[2]})
                   = <<w2[2], w1[2], w1[1]>>
             /\ SelectSeq(invoked, LAMBDA t : t \in {w1[1], w1[2], w2[2]})
                   = <<w1[1], w1[2], w2[2]>>

C3_Witness ==
    /\ event.op = "dispatchReturn"
    /\ \E w1, w2 \in waited :
          /\ w1[2] = w2[1]
          /\ startKeys = <<w1[1], w2[2], w1[2]>>
          /\ completed = <<w2[2], w1[2], w1[1]>>

\* C4: a waitFor that reaches a target whose callback is still running
\* fails with CircularDependency naming that target and invokes nothing;
\* no token is on the call stack twice, so the stack is bounded by the
\* number of tokens.
C4_CycleDetected ==
    /\ [][(event'.op \in WaitOps /\ OnStack(event'.tok)) =>
            /\ event'.err = "CircularDependency"
            /\ invoked' = invoked
            /\ isPending' = isPending]_vars
    /\ [](/\ \A i, j \in 1..Len(stack) :
                (stack[i].kind = "cb" /\ stack[j].kind = "cb"
                 /\ stack[i].id = stack[j].id) => i = j
          /\ Len(stack) <= 2 * (lastID - 1) + 1)

C4_Witness ==
    /\ event.op = "waitForStep"
    /\ event.err = "CircularDependency"
    /\ result = Err("CircularDependency", event.tok)
    /\ Len(invoked) = 2
    /\ event.tok = invoked[1]
    /\ stack = <<>>

\* C5: (the claim as stated) during a round, a waitFor that reaches a token
\* which was unregistered fails with UnknownSubscriber.
C5_WaitForUnregisteredFails ==
    (event.op \in WaitOps /\ event.tok \in unregistered) =>
        event.err = "UnknownSubscriber"

\* C6: when a callback or a waitFor inside it throws and no callback on the
\* stack has a try/catch around its waitFor, the round ends there: the stack
\* is dropped whole (no suspended callback goes on), nothing more is invoked
\* or completed, the engine stops dispatching and the caller of dispatch
\* gets that very error; nothing is invoked until the next dispatch.
C6_ErrorAbortsRound ==
    /\ [][(/\ event'.op \in {"callbackThrow", "waitForStep"}
           /\ event'.err # "none"
           /\ \A i \in 1..Len(stack) :
                 stack[i].kind = "waitFor" => ~stack[i].guarded) =>
            /\ stack' = <<>>
            /\ ~isDispatching'
            /\ result' = Err(event'.err, event'.tok)
            /\ UNCHANGED <<invoked, completed, waited, isHandled>>]_vars
    /\ [][~isDispatching' => UNCHANGED <<invoked, completed>>]_vars

C6_Witness ==
    /\ event.op = "callbackThrow"
    /\ result = Err("SubscriberError", event.tok)
    /\ stack = <<>>
    /\ Len(invoked) = 2
    /\ completed = <<>>
    /\ waited = {}
    /\ \E t \in Range(startKeys) :
          t \in Range(payloadables) /\ t \notin Range(invoked)

\* C7: in every round each token's callback is entered at most once.
C7_InvokedAtMostOnce == NoDup(invoked)

C7_Witness ==
    /\ event.op = "loopContinue"
    /\ lateReg # {}
    /\ waited # {}
    /\ Len(invoked) = 2

\* C8: (the claim as stated) while no round is active no token has its
\* pending or handled flag set and no payload is stored.
C8_RoundStateCleared ==
    ~isDispatching =>
        isPending = {} /\ isHandled = {} /\ pendingPayload = Undefined

\* C9: (the claim as stated) a token registered while a round is active is
\* not invoked during that round.
C9_LateRegistrationNotInvoked ==
    Range(invoked) \cap lateReg = {}

\* C10: the tokens register has returned are pairwise different, also
\* after unregister calls.
C10_TokensUnique == NoDup(issued)

C10_Witness ==
    /\ event.op = "register"
    /\ Len(issued) = 3
    /\ unregistered # {}
    /\ isDispatching

\* C11: an unregister of a token that is not registered (never issued, or
\* unregistered before) fails with UnknownSubscriber and leaves the
\* registry, the flags and the invocations as they were, and the payload
\* and isDispatching too unless it was called in a round and nobody catches
\* the error, which then ends the round.
C11_UnregisterUnknownFails ==
    [][(event'.op = "unregister" /\ event'.tok \notin Range(payloadables)) =>
          /\ event'.err = "UnknownSubscriber"
          /\ UNCHANGED <<payloadables, isHandled, isPending, lastID, invoked,
                         completed, unregistered, issued>>
          /\ \/ UNCHANGED <<pendingPayload, isDispatching>>
             \/ /\ stack # <<>>
                /\ stack' = <<>>
                /\ result' = Err("UnknownSubscriber", event'.tok)]_vars

C11_Witness ==
    /\ event.op = "unregister"
    /\ event.err = "UnknownSubscriber"
    /\ event.tok \in unregistered
    /\ isDispatching
    /\ Top.kind = "cb"
    /\ Top.n = 1

\* C12: a waitFor called while no round is active fails with
\* NotDispatching whatever its arguments, enters no callback and changes
\* nothing of the engine.
C12_WaitForOutsideRound ==
    [][(event'.op = "waitFor" /\ ~isDispatching) =>
          /\ event'.err = "NotDispatching"
          /\ stack' = stack
          /\ UNCHANGED <<payloadables, isHandled, isPending, lastID,
                         pendingPayload, isDispatching, invoked, completed,
                         result>>]_vars

C12_Witness ==
    /\ event.op = "waitFor"
    /\ event.err = "NotDispatching"
    /\ stack = <<>>
    /\ isPending # {}
    /\ unregistered # {}
    /\ payloadables # <<>>

\* C13: every callback running in a round was given the payload that was
\* passed to the dispatch call at the bottom of the stack, a payload of the
\* caller and not the value of a cleared property.
C13_PayloadPassedUnmodified ==
    \A i \in 1..Len(stack) :
        stack[i].kind = "cb" =>
            /\ stack[1].kind = "dispatch"
            /\ stack[i].payload = stack[1].payload
            /\ stack[i].payload \in Payloads

C13_Witness ==
    /\ rounds = 2
    /\ result.kind = "SubscriberError"
    /\ Len(stack) = 4
    /\ stack[2].kind = "cb"
    /\ stack[3].kind = "waitFor"
    /\ stack[4].kind = "cb"
    /\ stack[4].payload = "p2"
    /\ stack[2].payload = "p2"

\* C14: (the claim as stated) during a round every token that is pending
\* and not handled has its callback on the call stack.
C14_PendingMeansOnStack ==
    isDispatching => \A t \in isPending \ isHandled : OnStack(t)

\* C15: from one state of a round to the next no pending flag and no
\* handled flag is taken back, and during a round every handled token is
\* pending.
C15_FlagsMonotonic ==
    /\ [][(isDispatching /\ isDispatching') =>
            (isPending \subseteq isPending' /\ isHandled \subseteq isHandled')]_vars
    /\ [](isDispatching => isHandled \subseteq isPending)

C15_Witness ==
    /\ isDispatching
    /\ \E a, b, c \in Range(payloadables) :
          /\ a \in isHandled
          /\ b \in isPending \ isHandled
          /\ c \notin isPending
    /\ rounds = 2

\* tokens registered when the round started and still registered
Survivors == Range(startKeys) \cap Range(payloadables)

Count(s, x) == Len(SelectSeq(s, LAMBDA y : y = x))

C17_RoundStartsUnvisited ==
    /\ (event.op = "dispatch" /\ event.err = "none") =>
          Range(payloadables) \cap (isPending \cup isHandled) = {}
    /\ isDispatching =>
          \A t \in Range(payloadables) :
              /\ t \in isPending => t \in Range(invoked)
              /\ t \in isHandled => t \in Range(completed)

C17_Witness ==
    /\ event.op = "dispatch"
    /\ event.err = "none"
    /\ rounds = 2
    /\ result.kind \in {"SubscriberError", "CircularDependency"}
    /\ Len(payloadables) = 2
    /\ (isPending \ isHandled) # {}

C19_UnregisterInRound ==
    /\ [][(isDispatching /\ stack # <<>> /\ event'.op = "unregister"
             /\ event'.err = "none") =>
            /\ payloadables' =
                   SelectSeq(payloadables, LAMBDA k : k # event'.tok)
            /\ event'.tok \in Range(payloadables)
            /\ stack' = Bump(stack)
            /\ UNCHANGED <<isDispatching, pendingPayload, isPending,
                           isHandled, lastID, invoked, completed, startKeys,
                           result, raised>>]_vars
    /\ [](event.op \in {"loopInvoke", "waitForInvoke"} =>
            event.tok \notin unregistered)
    /\ [](event.op = "dispatchReturn" =>
            /\ \A t \in Survivors : t \in Range(invoked)
            /\ \A t \in Range(startKeys) : Count(invoked, t) <= 1)

C19_Witness ==
    /\ event.op = "dispatchReturn"
    /\ result = NoErr
    /\ Len(startKeys) = 3
    /\ Len(invoked) = 2
    /\ \E t \in Range(startKeys) :
          /\ t \in unregistered
          /\ t \notin Range(invoked)
          /\ invoked = SelectSeq(startKeys, LAMBDA k : k # t)
====
